---- MODULE Spec2Model ----
(***************************************************************************)
(* A model of spotify_songs_relink.py (main): the source selection, the    *)
(* paginated audit of a liked-songs collection or an owned playlist, the   *)
(* report, and the live-run replacement loop, together with the remote     *)
(* library the calls act on.                                               *)
(***************************************************************************)
EXTENDS Integers, Sequences, FiniteSets, TLC

\* ---------------------------------------------------------------- bounds
\* The longest collection of the remote library.
MaxItems == 2
\* The page sizes of the two fetch calls.  The program asks for 100 playlist
\* items and 50 saved tracks per page; the model keeps the two calls and their
\* offsets and scales the sizes down so that a collection of MaxItems items
\* spans more than one page.
PlaylistPageLimit == 2
LikedPageLimit == 1

\* ---------------------------------------------------------------- constants
\* limit=5 of the catalog search.
SearchLimit == 5

\* Python's None.
None == "None"
\* The placeholder sp.tracks returns for a track removed from the catalog.
NullTrack == [id |-> None, linked_from |-> None, is_playable |-> FALSE, album |-> ""]
\* resolved_track while the loop over the resolved tracks has bound no track.
Unbound == [id |-> "unbound", linked_from |-> None, is_playable |-> FALSE, album |-> ""]
\* search_results while the pass in hand has issued no search.
NoSearch == [issued |-> FALSE, items |-> <<>>]
\* An item of a collection is modelled by its track identifier; NoId is the
\* item without a track or without a track identifier (a local file).
NoId == ""

\* ---------------------------------------------------------------- strings
\* str.lower() on the strings of the model.
LowerTable ==
    ("Y" :> "y") @@ ("ABBA" :> "abba") @@ ("Beck" :> "beck") @@
    ("Hey" :> "hey") @@ ("HEY" :> "hey") @@ ("Yo" :> "yo")

Lower(s) == IF s \in DOMAIN LowerTable THEN LowerTable[s] ELSE s

\* str.upper() on the market codes of the model.
Upper(s) == IF s = "be" THEN "BE" ELSE s

\* str.strip() on the artist arguments of the model.
Strip(s) == IF s = " " THEN "" ELSE s

\* ---------------------------------------------------------------- the catalog
\* The tracks the remote library can hold and the metadata the service reports
\* for them (item['track']['name'], ['artists'][0]['name'], ['album']['name']).
LibraryIds == {"A", "B"}

TrackName(id) ==
    CASE id = "A" -> "Hey" [] id = "B" -> "Yo" [] id = "Z" -> "HEY"
      [] id = "Y" -> "hey" [] OTHER -> ""

ArtistName(id) ==
    CASE id = "A" -> "ABBA" [] id = "B" -> "Beck" [] id = "Z" -> "ABBA"
      [] id = "Y" -> "ABBA" [] OTHER -> ""

AlbumName(id) ==
    CASE id = "A" -> "Album A" [] id = "B" -> "Album B" [] id = "Z" -> "Album Z"
      [] id = "Y" -> "Album Y" [] OTHER -> ""

\* What sp.tracks(track_ids, market) can report for the identifier id: the null
\* placeholder, the track itself (playable in the market or not), or the track
\* it was re-linked to, with linked_from naming id.
ResolvedOutcomes(id) ==
    {NullTrack}
    \cup { [id |-> id, linked_from |-> None, is_playable |-> p, album |-> AlbumName(id)]
             : p \in BOOLEAN }
    \cup { [id |-> "Z", linked_from |-> id, is_playable |-> p, album |-> AlbumName("Z")]
             : p \in BOOLEAN }

\* The candidates a catalog search can return.  The search is issued without a
\* market, so the service decides is_playable for the account's country, not for
\* USER_MARKET: a track that is unplayable in USER_MARKET can come back playable.
Candidate(id, p) == [id |-> id, name |-> TrackName(id), is_playable |-> p, album |-> AlbumName(id)]

CandidatePool == {Candidate("A", TRUE), Candidate("B", TRUE), Candidate("Z", TRUE), Candidate("Y", FALSE)}

RECURSIVE SeqsNoRepeat(_, _)
SeqsNoRepeat(S, n) ==
    IF n = 0 THEN {<<>>}
    ELSE {<<>>} \cup { <<x>> \o s : x \in S, s \in SeqsNoRepeat(S, n - 1) }

NoRepeat(s) == \A a, b \in 1..Len(s) : a # b => s[a] # s[b]

\* The responses of sp.search(q, type='track', limit=5): at most limit
\* candidates, each at most once, in the service's order.
SearchResponses ==
    { s \in SeqsNoRepeat(CandidatePool, SearchLimit) : NoRepeat(s) /\ Len(s) <= SearchLimit }

\* ---------------------------------------------------------------- the remote library
RECURSIVE SeqsUpTo(_, _)
SeqsUpTo(S, n) ==
    IF n = 0 THEN {<<>>}
    ELSE {<<>>} \cup { <<x>> \o s : x \in S, s \in SeqsUpTo(S, n - 1) }

\* A playlist holds any items, also the same track twice and items without a
\* track identifier; the saved tracks hold each track at most once.
PlaylistContents == SeqsUpTo(LibraryIds \cup {NoId}, MaxItems)
LikedContents == { s \in SeqsUpTo(LibraryIds, MaxItems) : NoRepeat(s) }

RECURSIVE RemoveAll(_, _)
RemoveAll(s, id) ==
    IF s = <<>> THEN <<>>
    ELSE IF Head(s) = id THEN RemoveAll(Tail(s), id)
    ELSE <<Head(s)>> \o RemoveAll(Tail(s), id)

Contains(s, id) == \E n \in 1..Len(s) : s[n] = id

\* playlist_add_items appends; current_user_saved_tracks_add saves a track that
\* is not saved yet at the head of the collection.
RemoteAdd(lib, pid, id) ==
    IF pid # None THEN [lib EXCEPT !.playlist = Append(@, id)]
    ELSE IF Contains(lib.liked, id) THEN lib
    ELSE [lib EXCEPT !.liked = <<id>> \o @]

\* playlist_remove_all_occurrences_of_items / current_user_saved_tracks_delete.
RemoteRemove(lib, pid, id) ==
    IF pid # None THEN [lib EXCEPT !.playlist = RemoveAll(@, id)]
    ELSE [lib EXCEPT !.liked = RemoveAll(@, id)]

\* The collection the run works on.
Source(lib, pid) == IF pid # None THEN lib.playlist ELSE lib.liked

Min(a, b) == IF a < b THEN a ELSE b

\* results['items'] of playlist_items(limit=100, offset) and of
\* current_user_saved_tracks(limit=50, offset).
FetchPage(lib, pid, off) ==
    LET src == Source(lib, pid)
        limit == IF pid # None THEN PlaylistPageLimit ELSE LikedPageLimit
    IN SubSeq(src, off + 1, Min(off + limit, Len(src)))

\* ---------------------------------------------------------------- the audit, as functions
\* The keys of original_track_map in insertion order: the identifiers of the
\* page's items that have one, each once (a dict keeps one entry per key).
RECURSIVE TrackIds(_)
TrackIds(items) ==
    IF items = <<>> THEN <<>>
    ELSE LET rest == TrackIds(SubSeq(items, 1, Len(items) - 1))
             last == items[Len(items)]
         IN IF last = NoId \/ Contains(rest, last) THEN rest ELSE Append(rest, last)

IsRelinked(rt) == rt.linked_from # None

IsUnplayable(rt) == ~rt.is_playable

IdInLibrary(rt) == IF IsRelinked(rt) THEN rt.linked_from ELSE rt.id

\* The chain with its first two branches in the other order.
Reason_UnplayableFirst(rt) ==
    IF IsUnplayable(rt) THEN "Unplayable"
    ELSE IF IsRelinked(rt) THEN "Re-linked"
    ELSE "OK"

\* The reason of the record of a resolved track: the if / elif / else chain.
Reason(rt) ==
    IF IsRelinked(rt) THEN "Re-linked"
    ELSE IF IsUnplayable(rt) THEN "Unplayable"
    ELSE "OK"

\* Whether the chain issues sp.search for the resolved track.
Searches(rt) == Reason(rt) = "Unplayable"

\* The test without the comparison of the titles.
Accepts_AnyPlayable(cand, title) == cand.is_playable

\* The test a search candidate has to pass.
Accepts(cand, title) == cand.is_playable /\ Lower(cand.name) = Lower(title)

\* The loop over search_results['tracks']['items']: the first candidate that
\* passes gives new_id and new_album, and the loop breaks.
RECURSIVE FindReplacement(_, _)
FindReplacement(items, title) ==
    IF items = <<>> THEN [new_id |-> "", new_album |-> ""]
    ELSE IF Accepts(Head(items), title)
         THEN [new_id |-> Head(items).id, new_album |-> Head(items).album]
         ELSE FindReplacement(Tail(items), title)

\* log_entry as it is appended for the resolved track rt, the search having
\* returned the candidates resp (none when no search was issued).
LogEntry(rt, resp) ==
    LET old == IdInLibrary(rt)
        base == [artist |-> ArtistName(old), title |-> TrackName(old),
                 old_album |-> AlbumName(old), old_id |-> old,
                 new_album |-> "", new_id |-> "", reason |-> Reason(rt)]
    IN CASE Reason(rt) = "Re-linked" ->
              [base EXCEPT !.new_id = rt.id, !.new_album = rt.album]
         [] Reason(rt) = "Unplayable" ->
              LET found == FindReplacement(resp, base.title)
              IN [base EXCEPT !.new_id = found.new_id, !.new_album = found.new_album]
         [] OTHER -> base

\* tracks_to_process: the records with a substitute, in audit order.
HasReplacement(t) == t.new_id # ""

TracksToProcess(log) == SelectSeq(log, HasReplacement)

\* The filter skips nothing.
SkippedByArtist_Never(artist, pair) == FALSE

\* The test-artist filter of the replacement loop: TRUE when the record is skipped.
SkippedByArtist(artist, pair) ==
    artist # None /\ Lower(pair.artist) # Lower(artist)

\* The offset advances by the number of identifiers of the page.
NextOffset_CountIds(off, items) == off + Len(TrackIds(items))

\* offset += len(results['items']).
NextOffset(off, items) == off + Len(items)

\* The replacement runs whatever the mode.
RunsReplacement_Always(dry_run) == TRUE

\* "if not DRY_RUN": whether step 7 runs the replacement.
RunsReplacement(dry_run) == ~dry_run

\* The error ends the loop.
OnReplaceError_Break(n) == n + MaxItems

\* The index the replacement loop goes on with after the except clause has
\* printed a record's error.
OnReplaceError(n) == n + 1

\* Every answer but n goes on.
Proceeds_UnlessNo(answer) == Lower(answer) # "n"

\* The answer that lets a confirmation prompt go on.
Proceeds(answer) == Lower(answer) = "y"

\* ---------------------------------------------------------------- source selection, as functions
\* The playlists current_user_playlists lists, with their owners.
UserId == "me"

UserPlaylists == << [id |-> "pl1", owner |-> "me"], [id |-> "pl2", owner |-> "other"] >>

IsOwned(p) == p.owner = UserId

\* selection_options: Liked Songs first, then the playlists the user owns.
SelectionOptions ==
    <<[name |-> "Liked Songs", id |-> "liked_songs"]>>
    \o [n \in 1..Len(SelectSeq(UserPlaylists, IsOwned)) |->
          [name |-> SelectSeq(UserPlaylists, IsOwned)[n].id,
           id |-> SelectSeq(UserPlaylists, IsOwned)[n].id]]

\* sp.playlist(PLAYLIST_ID): the playlist's owner, or None when the call raises
\* SpotifyException.
PlaylistOwner(pid) ==
    IF \E n \in 1..Len(UserPlaylists) : UserPlaylists[n].id = pid
    THEN (CHOOSE p \in {UserPlaylists[n] : n \in 1..Len(UserPlaylists)} : p.id = pid).owner
    ELSE None

AvailableMarkets == {"BE", "US"}

\* ---------------------------------------------------------------- state
VARIABLES
    DRY_RUN,              \* args.dry_run
    TEST_MODE_ARTIST,     \* args.artist, None when not given
    market,               \* args.market
    select_from_list,     \* args.select_from_list
    PLAYLIST_ID,          \* args.playlist_id, then the selected source (None: Liked Songs)
    library,              \* the remote library: [liked, playlist], sequences of items
    library0,             \* the remote library as the run found it
    pc,                   \* the place of main the run is at
    exit_code,            \* the process's exit status, -1 while it runs
    confirm_source,       \* the answer to "Proceed? (y/n)", None before it is asked
    confirm,              \* the answer to "Are you sure you want to continue? (y/n)"
    offset,               \* the fetch loop's offset
    results,              \* results['items'] of the page in hand
    track_ids,            \* list(original_track_map.keys()) of the page in hand
    k,                    \* the place of the loop over full_tracks_details['tracks']
    resolved_track,       \* the resolved track of the loop's last pass, Unbound outside it
    search_results,       \* the search response of the loop's last pass, NoSearch without one
    tracks_to_audit_log,  \* the audit records
    searches,             \* the number of sp.search calls issued
    pages,                \* the pages the fetch calls returned, in order
    items_resolved,       \* the number of fetched items with an identifier that resolved to a track
    report_written,       \* whether wb.save(filename) ran
    tracks_to_process,    \* the records with a substitute
    i,                    \* the place of the replacement loop (enumerate from 1)
    processed_count,      \* the replacement loop's counter
    source_before,        \* the source as it was when the last add call was issued
    calls                 \* the mutating calls issued to the service, in order

vars == <<DRY_RUN, TEST_MODE_ARTIST, market, select_from_list, PLAYLIST_ID, library,
          library0, pc, exit_code, confirm_source, confirm, offset, results, track_ids,
          k, resolved_track, search_results, tracks_to_audit_log, searches, pages,
          items_resolved, report_written, tracks_to_process, i, processed_count,
          source_before, calls>>

args == <<DRY_RUN, TEST_MODE_ARTIST, market, select_from_list>>
auditVars == <<offset, results, track_ids, k, resolved_track, search_results,
               tracks_to_audit_log, searches, pages, items_resolved>>
liveVars == <<tracks_to_process, i, processed_count, source_before, calls>>

\* The inputs: the command line, the user's answers and the remote library.
ArtistArgs == {None, "abba", " "}
MarketArgs == {"be", "xx"}
PlaylistArgs == {None, "pl1", "pl2", "gone"}
Answers == {"Y", "n", "yes"}
Choices == {"x", "0", "1", "2", "3"}

\* The libraries a run can find: the saved tracks and the one owned playlist,
\* one of the two being empty.
Libraries ==
    { [liked |-> l, playlist |-> <<>>] : l \in LikedContents }
    \cup { [liked |-> <<>>, playlist |-> p] : p \in PlaylistContents }

Init ==
    /\ DRY_RUN \in BOOLEAN
    /\ TEST_MODE_ARTIST \in ArtistArgs
    /\ market \in MarketArgs
    /\ select_from_list \in BOOLEAN
    /\ PLAYLIST_ID \in PlaylistArgs
    /\ library \in Libraries
    /\ library0 = library
    /\ pc = "start"
    /\ exit_code = -1
    /\ confirm_source = None
    /\ confirm = None
    /\ offset = 0
    /\ results = <<>>
    /\ track_ids = <<>>
    /\ k = 1
    /\ resolved_track = Unbound
    /\ search_results = NoSearch
    /\ tracks_to_audit_log = <<>>
    /\ searches = 0
    /\ pages = <<>>
    /\ items_resolved = 0
    /\ report_written = FALSE
    /\ tracks_to_process = <<>>
    /\ i = 1
    /\ processed_count = 0
    /\ source_before = <<>>
    /\ calls = <<>>

\* sys.exit(status), or main returning (status 0).
Exit(status) ==
    /\ pc' = "done"
    /\ exit_code' = status

\* ---------------------------------------------------------------- steps 1 and 2
\* --artist given and blank: sys.exit(1).
RejectArtist ==
    /\ pc = "start"
    /\ TEST_MODE_ARTIST # None /\ Strip(TEST_MODE_ARTIST) = ""
    /\ Exit(1)
    /\ UNCHANGED <<args, PLAYLIST_ID, library, library0, confirm_source, confirm,
                   auditVars, report_written, liveVars>>

\* USER_MARKET not among the available markets: sys.exit(1).
RejectMarket ==
    /\ pc = "start"
    /\ ~(TEST_MODE_ARTIST # None /\ Strip(TEST_MODE_ARTIST) = "")
    /\ Upper(market) \notin AvailableMarkets
    /\ Exit(1)
    /\ UNCHANGED <<args, PLAYLIST_ID, library, library0, confirm_source, confirm,
                   auditVars, report_written, liveVars>>

Validated ==
    /\ pc = "start"
    /\ ~(TEST_MODE_ARTIST # None /\ Strip(TEST_MODE_ARTIST) = "")
    /\ Upper(market) \in AvailableMarkets
    /\ pc' = "source"
    /\ UNCHANGED <<args, PLAYLIST_ID, library, library0, exit_code, confirm_source,
                   confirm, auditVars, report_written, liveVars>>

\* ---------------------------------------------------------------- step 3
\* --select-from-list: the playlists are listed and the menu is shown.
ShowMenu ==
    /\ pc = "source"
    /\ select_from_list
    /\ pc' = "menu"
    /\ UNCHANGED <<args, PLAYLIST_ID, library, library0, exit_code, confirm_source,
                   confirm, auditVars, report_written, liveVars>>

\* int(choice_str): the inputs that do not raise ValueError, and their values.
IsNumber(choice_str) == choice_str \in {"0", "1", "2", "3"}

ParseInt(choice_str) ==
    CASE choice_str = "0" -> 0 [] choice_str = "1" -> 1
      [] choice_str = "2" -> 2 [] choice_str = "3" -> 3

\* One pass of the menu loop with an input that is no number of the menu: the
\* loop asks again.
MenuInvalid ==
    /\ pc = "menu"
    /\ \E choice_str \in Choices :
         \/ ~IsNumber(choice_str)
         \/ /\ IsNumber(choice_str)
            /\ ~(1 <= ParseInt(choice_str) /\ ParseInt(choice_str) <= Len(SelectionOptions))
    /\ UNCHANGED vars

\* One pass of the menu loop with a number of the menu: the source is selected
\* and confirmed; an answer other than y ends the run with sys.exit(0).
MenuSelect ==
    /\ pc = "menu"
    /\ \E choice_str \in Choices, answer \in Answers :
         LET choice_index == ParseInt(choice_str)
             selected_source == SelectionOptions[choice_index]
         IN /\ IsNumber(choice_str)
            /\ 1 <= choice_index /\ choice_index <= Len(SelectionOptions)
            /\ PLAYLIST_ID' = IF selected_source.id = "liked_songs" THEN None
                              ELSE selected_source.id
            /\ confirm_source' = answer
            /\ IF Proceeds(answer)
               THEN pc' = "announce" /\ UNCHANGED exit_code
               ELSE Exit(0)
    /\ UNCHANGED <<args, library, library0, confirm, auditVars, report_written, liveVars>>

\* --playlist-id: sp.playlist raises, or the playlist is someone else's:
\* sys.exit(1).
PlaylistRejected ==
    /\ pc = "source"
    /\ ~select_from_list /\ PLAYLIST_ID # None
    /\ PlaylistOwner(PLAYLIST_ID) # UserId
    /\ Exit(1)
    /\ UNCHANGED <<args, PLAYLIST_ID, library, library0, confirm_source, confirm,
                   auditVars, report_written, liveVars>>

\* --playlist-id names a playlist of the user, or no source is named (Liked Songs).
SourceFixed ==
    /\ pc = "source"
    /\ ~select_from_list
    /\ PLAYLIST_ID # None => PlaylistOwner(PLAYLIST_ID) = UserId
    /\ pc' = "announce"
    /\ UNCHANGED <<args, PLAYLIST_ID, library, library0, exit_code, confirm_source,
                   confirm, auditVars, report_written, liveVars>>

\* ---------------------------------------------------------------- step 4
AnnounceDryRun ==
    /\ pc = "announce"
    /\ DRY_RUN
    /\ pc' = "fetch"
    /\ UNCHANGED <<args, PLAYLIST_ID, library, library0, exit_code, confirm_source,
                   confirm, auditVars, report_written, liveVars>>

\* The live run asks for a confirmation; an answer other than y returns from main.
ConfirmLiveRun ==
    /\ pc = "announce"
    /\ ~DRY_RUN
    /\ \E answer \in Answers :
         /\ confirm' = answer
         /\ IF Proceeds(answer)
            THEN pc' = "fetch" /\ UNCHANGED exit_code
            ELSE Exit(0)
    /\ UNCHANGED <<args, PLAYLIST_ID, library, library0, confirm_source, auditVars,
                   report_written, liveVars>>

\* ---------------------------------------------------------------- step 5
\* The head of the fetch loop: a page is fetched.  An empty page ends the loop;
\* a page without any track identifier advances the offset and fetches again;
\* otherwise the page's identifiers are resolved.
Fetch ==
    /\ pc = "fetch"
    /\ LET items == FetchPage(library, PLAYLIST_ID, offset)
       IN /\ results' = items
          /\ pages' = Append(pages, items)
          /\ IF items = <<>>
             THEN /\ pc' = "report"
                  /\ UNCHANGED <<offset, track_ids, k>>
             ELSE IF TrackIds(items) = <<>>
             THEN /\ offset' = NextOffset(offset, items)
                  /\ pc' = "fetch"
                  /\ UNCHANGED <<track_ids, k>>
             ELSE /\ track_ids' = TrackIds(items)
                  /\ k' = 1
                  /\ pc' = "resolve"
                  /\ UNCHANGED offset
    /\ UNCHANGED <<args, PLAYLIST_ID, library, library0, exit_code, confirm_source,
                   confirm, resolved_track, search_results, tracks_to_audit_log,
                   searches, items_resolved, report_written, liveVars>>

\* The number of the page's items that carry the identifier id.
ItemsWithId(items, id) == Cardinality({n \in 1..Len(items) : items[n] = id})

\* One pass of the loop over full_tracks_details['tracks'] (the batched response
\* is read one element per pass): the null placeholder and a track the page map
\* does not know are skipped; otherwise the record is built, after a search for
\* an unplayable track, and appended.
ClassifyTrack ==
    /\ pc = "resolve"
    /\ k <= Len(track_ids)
    /\ \E rt \in ResolvedOutcomes(track_ids[k]) :
         /\ resolved_track' = rt
         /\ IF rt = NullTrack
            THEN /\ search_results' = NoSearch
                 /\ UNCHANGED <<tracks_to_audit_log, searches, items_resolved>>
            ELSE IF ~Contains(track_ids, IdInLibrary(rt))
            THEN /\ search_results' = NoSearch
                 /\ UNCHANGED <<tracks_to_audit_log, searches, items_resolved>>
            ELSE /\ items_resolved' = items_resolved + ItemsWithId(results, track_ids[k])
                 /\ \E resp \in (IF Searches(rt) THEN SearchResponses ELSE {<<>>}) :
                      /\ search_results' = [issued |-> Searches(rt), items |-> resp]
                      /\ searches' = IF Searches(rt) THEN searches + 1 ELSE searches
                      /\ tracks_to_audit_log' = Append(tracks_to_audit_log, LogEntry(rt, resp))
    /\ k' = k + 1
    /\ UNCHANGED <<args, PLAYLIST_ID, library, library0, pc, exit_code, confirm_source,
                   confirm, offset, results, track_ids, pages, report_written, liveVars>>

\* The end of the fetch loop's body: the offset advances by the page's length.
EndPage ==
    /\ pc = "resolve"
    /\ k > Len(track_ids)
    /\ offset' = NextOffset(offset, results)
    /\ pc' = "fetch"
    /\ resolved_track' = Unbound
    /\ search_results' = NoSearch
    /\ UNCHANGED <<args, PLAYLIST_ID, library, library0, exit_code, confirm_source,
                   confirm, results, track_ids, k, tracks_to_audit_log, searches,
                   pages, items_resolved, report_written, liveVars>>

\* A read of the remote service raises (the fetch of a page, sp.tracks or
\* sp.search): the handler at the foot of main prints the error, sys.exit(1).
UnexpectedError ==
    /\ pc \in {"fetch", "resolve"}
    /\ pc = "resolve" => k <= Len(track_ids)
    /\ Exit(1)
    /\ UNCHANGED <<args, PLAYLIST_ID, library, library0, confirm_source, confirm,
                   auditVars, report_written, liveVars>>

\* ---------------------------------------------------------------- step 6
\* The summary, and the report when there is a record to report.
Report ==
    /\ pc = "report"
    /\ report_written' = (tracks_to_audit_log # <<>>)
    /\ pc' = "live"
    /\ UNCHANGED <<args, PLAYLIST_ID, library, library0, exit_code, confirm_source,
                   confirm, auditVars, liveVars>>

\* ---------------------------------------------------------------- step 7
\* The dry run ends here.
DryRunComplete ==
    /\ pc = "live"
    /\ ~RunsReplacement(DRY_RUN)
    /\ Exit(0)
    /\ UNCHANGED <<args, PLAYLIST_ID, library, library0, confirm_source, confirm,
                   auditVars, report_written, liveVars>>

\* The live run collects the records with a substitute; without any it ends.
StartReplacement ==
    /\ pc = "live"
    /\ RunsReplacement(DRY_RUN)
    /\ tracks_to_process' = TracksToProcess(tracks_to_audit_log)
    /\ i' = 1
    /\ IF TracksToProcess(tracks_to_audit_log) = <<>>
       THEN Exit(0)
       ELSE pc' = "loop" /\ UNCHANGED exit_code
    /\ UNCHANGED <<args, PLAYLIST_ID, library, library0, confirm_source, confirm,
                   auditVars, report_written, processed_count, source_before, calls>>

\* The head of the replacement loop: a record the artist filter skips.
SkipPair ==
    /\ pc = "loop"
    /\ i <= Len(tracks_to_process)
    /\ SkippedByArtist(TEST_MODE_ARTIST, tracks_to_process[i])
    /\ i' = i + 1
    /\ UNCHANGED <<args, PLAYLIST_ID, library, library0, pc, exit_code, confirm_source,
                   confirm, auditVars, report_written, tracks_to_process,
                   processed_count, source_before, calls>>

\* The call record of the service's log.
Call(op, id, n, ok) == [op |-> op, id |-> id, i |-> n, ok |-> ok]

\* playlist_add_items / current_user_saved_tracks_add of pair['new_id'].  When
\* the call raises, the except clause prints the error and the loop goes on
\* with the next record.
AddCall ==
    /\ pc = "loop"
    /\ i <= Len(tracks_to_process)
    /\ ~SkippedByArtist(TEST_MODE_ARTIST, tracks_to_process[i])
    /\ source_before' = Source(library, PLAYLIST_ID)
    /\ \E ok \in BOOLEAN :
         /\ calls' = Append(calls, Call("add", tracks_to_process[i].new_id, i, ok))
         /\ IF ok
            THEN /\ library' = RemoteAdd(library, PLAYLIST_ID, tracks_to_process[i].new_id)
                 /\ pc' = "remove"
                 /\ UNCHANGED i
            ELSE /\ i' = OnReplaceError(i)
                 /\ UNCHANGED <<library, pc>>
    /\ UNCHANGED <<args, PLAYLIST_ID, library0, exit_code, confirm_source, confirm,
                   auditVars, report_written, tracks_to_process, processed_count>>

\* playlist_remove_all_occurrences_of_items / current_user_saved_tracks_delete
\* of pair['old_id'], then processed_count += 1.  When the call raises, the
\* except clause prints the error and the loop goes on.
RemoveCall ==
    /\ pc = "remove"
    /\ \E ok \in BOOLEAN :
         /\ calls' = Append(calls, Call("remove", tracks_to_process[i].old_id, i, ok))
         /\ IF ok
            THEN /\ library' = RemoteRemove(library, PLAYLIST_ID, tracks_to_process[i].old_id)
                 /\ processed_count' = processed_count + 1
                 /\ i' = i + 1
            ELSE /\ i' = OnReplaceError(i)
                 /\ UNCHANGED <<library, processed_count>>
    /\ pc' = "loop"
    /\ UNCHANGED <<args, PLAYLIST_ID, library0, exit_code, confirm_source, confirm,
                   auditVars, report_written, tracks_to_process, source_before>>

\* The replacement loop is through: "Cleanup complete!", main returns.
CleanupComplete ==
    /\ pc = "loop"
    /\ i > Len(tracks_to_process)
    /\ Exit(0)
    /\ UNCHANGED <<args, PLAYLIST_ID, library, library0, confirm_source, confirm,
                   auditVars, report_written, liveVars>>

\* ---------------------------------------------------------------- the specification
Next ==
    \/ RejectArtist
    \/ RejectMarket
    \/ Validated
    \/ ShowMenu
    \/ MenuInvalid
    \/ MenuSelect
    \/ PlaylistRejected
    \/ SourceFixed
    \/ AnnounceDryRun
    \/ ConfirmLiveRun
    \/ Fetch
    \/ ClassifyTrack
    \/ EndPage
    \/ UnexpectedError
    \/ Report
    \/ DryRunComplete
    \/ StartReplacement
    \/ SkipPair
    \/ AddCall
    \/ RemoveCall
    \/ CleanupComplete

Spec == Init /\ [][Next]_vars

\* main runs to its end: a step that can be taken is taken.
FairSpec == Spec /\ WF_vars(Next)

\* ---------------------------------------------------------------- properties
Last(s) == s[Len(s)]

\* Whether the audit record at place m is the n-th record with a substitute.
IsNthWithReplacement(m, n) ==
    /\ m \in 1..Len(tracks_to_audit_log)
    /\ tracks_to_audit_log[m].new_id # ""
    /\ Cardinality({q \in 1..m : tracks_to_audit_log[q].new_id # ""}) = n

\* Whether the run has a test-artist filter that lets the record through.
MatchesFilter(r) ==
    TEST_MODE_ARTIST # None => Lower(r.artist) = Lower(TEST_MODE_ARTIST)

\* C1: in a dry run no mutating call is ever issued to the remote service (and
\* the remote library stays as the run found it), whatever the source holds and
\* however many records have a substitute.
C1_DryRunIssuesNoMutatingCall ==
    DRY_RUN => (calls = <<>> /\ library = library0)

\* A dry run that found two substitutes has ended.
C1_Witness ==
    /\ DRY_RUN
    /\ pc = "done" /\ exit_code = 0
    /\ Len(TracksToProcess(tracks_to_audit_log)) >= 2

\* The answers the prompts take for a yes.
Affirmative == {"y", "Y"}

\* C2: once a confirmation prompt (the source selection's, the live run's) has
\* been given an answer that is not a yes, the run has ended with exit status 0
\* and no mutating call has been or is ever issued.
C2_DeclinedRunEndsUnchanged ==
    /\ (confirm_source # None /\ confirm_source \notin Affirmative)
         => (pc = "done" /\ exit_code = 0 /\ calls = <<>> /\ library = library0)
    /\ (confirm # None /\ confirm \notin Affirmative)
         => (pc = "done" /\ exit_code = 0 /\ calls = <<>> /\ library = library0)

\* A source was selected and confirmed, and the live run was then declined with
\* an answer that is neither y nor n.
C2_Witness ==
    /\ confirm_source = "Y"
    /\ confirm = "yes"
    /\ pc = "done"

\* C3: every add or remove call of a live run is for an audit record that has a
\* substitute and, with a test-artist filter, whose artist equals the filter
\* case-insensitively; the add carries the record's new_id, the remove its
\* old_id, and the calls follow the audit order of their records.
C3_CallsOnlyForSelectedRecords ==
    \A j \in 1..Len(calls) :
        /\ ~DRY_RUN
        /\ \E m \in 1..Len(tracks_to_audit_log) :
             /\ IsNthWithReplacement(m, calls[j].i)
             /\ MatchesFilter(tracks_to_audit_log[m])
             /\ calls[j].op = "add" => calls[j].id = tracks_to_audit_log[m].new_id
             /\ calls[j].op = "remove" => calls[j].id = tracks_to_audit_log[m].old_id
        /\ calls[j].op \in {"add", "remove"}
        /\ j > 1 => calls[j - 1].i <= calls[j].i

\* With the filter "abba", the first record with a substitute is Beck's and is
\* passed over, the second is ABBA's and has had its add and its remove.
C3_Witness ==
    /\ TEST_MODE_ARTIST = "abba"
    /\ Len(tracks_to_process) = 2
    /\ tracks_to_process[1].artist = "Beck"
    /\ tracks_to_process[2].artist = "ABBA"
    /\ Len(calls) = 2
    /\ calls[1].i = 2 /\ calls[2].op = "remove"

\* The source collection the run works on, now and as the run found it.
SourceNow == Source(library, PLAYLIST_ID)
SourceFound == Source(library0, PLAYLIST_ID)

\* C4: the add of a record's new_id comes before the remove of its old_id, the
\* remove is issued only after the add succeeded, and so, whichever of the two
\* calls fails or if both succeed, the source holds the record's old_id or its
\* new_id while the record is handled and right after, when it held old_id
\* before.
C4_TrackNeverAbsent ==
    /\ \A j \in 1..Len(calls) :
         calls[j].op = "remove" =>
            /\ j > 1
            /\ calls[j - 1].op = "add" /\ calls[j - 1].i = calls[j].i /\ calls[j - 1].ok
    /\ calls # <<>> =>
         LET pair == tracks_to_process[Last(calls).i]
         IN Contains(source_before, pair.old_id) =>
              (Contains(SourceNow, pair.old_id) \/ Contains(SourceNow, pair.new_id))

\* C5: a record's failed add or remove does not end the replacement loop: when
\* the live run has ended, every record of the action set has had its add
\* issued; a run that issued a call never exits non-zero; and the remote source
\* is what the successful calls made of it, nothing being rolled back.
RECURSIVE Replay(_, _)
Replay(lib, cs) ==
    IF cs = <<>> THEN lib
    ELSE LET c == Head(cs)
             next == IF ~c.ok THEN lib
                     ELSE IF c.op = "add" THEN RemoteAdd(lib, PLAYLIST_ID, c.id)
                     ELSE RemoteRemove(lib, PLAYLIST_ID, c.id)
         IN Replay(next, Tail(cs))

C5_FailureDoesNotStopTheLoop ==
    /\ calls # <<>> => exit_code \in {-1, 0}
    /\ library = Replay(library0, calls)
    /\ (pc = "done" /\ exit_code = 0 /\ ~DRY_RUN) =>
         \A m \in 1..Len(tracks_to_audit_log) :
            (tracks_to_audit_log[m].new_id # "" /\ MatchesFilter(tracks_to_audit_log[m])) =>
               \E j \in 1..Len(calls) :
                  /\ calls[j].op = "add"
                  /\ calls[j].id = tracks_to_audit_log[m].new_id
                  /\ IsNthWithReplacement(m, calls[j].i)

\* The first record's add failed, the second record's add succeeded and its
\* remove failed, and the run ended with status 0.
C5_Witness ==
    /\ pc = "done" /\ exit_code = 0
    /\ Len(calls) = 3
    /\ calls[1].op = "add" /\ ~calls[1].ok /\ calls[1].i = 1
    /\ calls[2].op = "add" /\ calls[2].ok /\ calls[2].i = 2
    /\ calls[3].op = "remove" /\ ~calls[3].ok

\* Whether the last pass of the loop over the resolved tracks appended a record.
RecordAppended ==
    /\ resolved_track # Unbound
    /\ resolved_track # NullTrack
    /\ tracks_to_audit_log # <<>>

\* C6: the reason of a record follows the precedence Re-linked (redirect
\* metadata present, playable or not), then Unplayable, then OK; a Re-linked
\* record has old_id = linked_from.id and new_id = the resolved id, and no
\* search is issued for it: the searches are as many as the Unplayable records.
C6_ReasonPrecedence ==
    /\ RecordAppended =>
         LET rt == resolved_track
             r == Last(tracks_to_audit_log)
         IN /\ r.reason = IF rt.linked_from # None THEN "Re-linked"
                          ELSE IF ~rt.is_playable THEN "Unplayable"
                          ELSE "OK"
            /\ rt.linked_from # None =>
                 /\ r.old_id = rt.linked_from
                 /\ r.new_id = rt.id
                 /\ ~search_results.issued
    /\ searches = Cardinality({m \in 1..Len(tracks_to_audit_log) :
                                 tracks_to_audit_log[m].reason = "Unplayable"})

\* A track that is re-linked and not playable has been recorded as Re-linked.
C6_Witness ==
    /\ RecordAppended
    /\ resolved_track.linked_from = "A"
    /\ ~resolved_track.is_playable
    /\ Last(tracks_to_audit_log).reason = "Re-linked"
    /\ Last(tracks_to_audit_log).new_id = "Z"

\* Whether a candidate is playable and carries the title, case aside.
Acceptable(cand, title) ==
    cand.is_playable /\ Lower(cand.name) = Lower(title)

\* C7: the new_id of an Unplayable record is the identifier of the first
\* candidate of the search response (at most 5 candidates) that is playable and
\* carries the original title, case aside; without such a candidate new_id and
\* new_album are empty; the reason is Unplayable either way.
C7_FirstAcceptableCandidate ==
    (RecordAppended /\ resolved_track.linked_from = None /\ ~resolved_track.is_playable) =>
        LET r == Last(tracks_to_audit_log)
            items == search_results.items
            good == {n \in 1..Len(items) : Acceptable(items[n], r.title)}
        IN /\ search_results.issued
           /\ Len(items) <= 5
           /\ r.reason = "Unplayable"
           /\ good = {} => (r.new_id = "" /\ r.new_album = "")
           /\ good # {} =>
                \E n \in good :
                   /\ \A q \in good : n <= q
                   /\ r.new_id = items[n].id
                   /\ r.new_album = items[n].album

\* The response held a candidate with another title, then one with the title
\* that is not playable, then the playable "HEY" for "Hey": the third was taken.
C7_Witness ==
    /\ RecordAppended
    /\ search_results.issued
    /\ Len(search_results.items) >= 3
    /\ search_results.items[1].id = "B"
    /\ search_results.items[2].id = "Y"
    /\ search_results.items[3].id = "Z"
    /\ Last(tracks_to_audit_log).title = "Hey"
    /\ Last(tracks_to_audit_log).new_id = "Z"

\* The items of the pages fetched so far, in the order they were returned.
RECURSIVE Concat(_)
Concat(ps) == IF ps = <<>> THEN <<>> ELSE Head(ps) \o Concat(Tail(ps))

\* Whether the fetch loop has met its empty page.
LoopEnded == pages # <<>> /\ Last(pages) = <<>>

C8_Pagination ==
    \* the offset is the number of items returned, the page in hand aside
    /\ pc = "fetch" => offset = Len(Concat(pages))
    /\ pc = "resolve" => offset + Len(results) = Len(Concat(pages))
    \* the pages are the source's items, each once and in order
    /\ Len(Concat(pages)) <= Len(SourceFound)
    /\ Concat(pages) = SubSeq(SourceFound, 1, Len(Concat(pages)))
    \* no page is fetched after an empty one
    /\ \A n \in 1..(Len(pages) - 1) : pages[n] # <<>>
    \* the loop ends with every item returned
    /\ pc \in {"report", "live", "loop", "remove"} => LoopEnded
    /\ LoopEnded => Concat(pages) = SourceFound
    \* an empty first page: no record, no report
    /\ (LoopEnded /\ Len(pages) = 1) => (tracks_to_audit_log = <<>> /\ ~report_written)

\* C8: over a source that does not change during the audit the fetch loop
\* terminates; the offset advances by the number of items of each page (also of
\* a page without any track identifier), the loop stops at the first empty
\* page, and every item of the source has then been returned in exactly one
\* page; when the first page is empty there is no record and no report.
C8_FetchLoopTerminates ==
    /\ []C8_Pagination
    /\ (pc = "fetch") ~> (pc \in {"report", "done"})

\* A playlist of two items without a track identifier: one page that resolves
\* nothing, the offset at 2, then the empty page.
C8_Witness ==
    /\ pc = "report"
    /\ pages = << <<NoId, NoId>>, <<>> >>
    /\ offset = 2

\* C9: after the audit the log holds exactly one record for each fetched item
\* that has a track identifier and whose track resolved to a track, also when
\* the same identifier occurs in more than one item.
C9_OneRecordPerItem ==
    pc = "report" => Len(tracks_to_audit_log) = items_resolved

\* Whether every call the live run issued succeeded.
AllCallsSucceeded == \A j \in 1..Len(calls) : calls[j].ok

\* C10: after a live run without artist filter in which every add and every
\* remove succeeded, the source holds the new_id of every record that had one.
C10_SubstitutesPresent ==
    (pc = "done" /\ exit_code = 0 /\ ~DRY_RUN /\ TEST_MODE_ARTIST = None /\ AllCallsSucceeded) =>
        \A m \in 1..Len(tracks_to_audit_log) :
            tracks_to_audit_log[m].new_id # "" =>
                Contains(SourceNow, tracks_to_audit_log[m].new_id)

====
